---- MODULE Spec2Model ----
(***************************************************************************)
(* Model of the query-plan compiler QueryPlan::new of src/planner/build.rs *)
(* together with its compilation context BuildEnv.                         *)
(*                                                                         *)
(* One behaviour is one call of QueryPlan::new on one query.  The actions  *)
(* are the consecutive parts of the function body: the pattern-less        *)
(* checks, the start node of a clause, the edge of a segment, the end node *)
(* of a segment, one RETURN name, and the final                            *)
(* Ok(QueryPlan { steps, returns }).  Init fixes the shape of the query;   *)
(* each part chooses what it reads from the query.                         *)
(*                                                                         *)
(* SpecPair runs two calls of QueryPlan::new in any interleaving: the      *)
(* variables hold the call that is running, other holds the call that is   *)
(* suspended, and Switch exchanges them.  The two calls compile the same   *)
(* MATCH and RETURN clauses, each with a WHERE list of its own.            *)
(***************************************************************************)
EXTENDS Integers, Sequences, FiniteSets, TLC

VARIABLES
    query,            \* the ast::Query being compiled
    pc,               \* position in the body of QueryPlan::new
    ci,               \* index of the current MATCH clause
    si,               \* index of the current (edge, node) segment
    env,              \* the BuildEnv: names and next_name
    steps,            \* the steps vector
    prev_node_name,   \* the local prev_node_name
    edge_name,        \* the local edge_name
    returns,          \* the returns vector
    plan,             \* what the call returned: NoPlan until it returns
    log,              \* history: one entry per pattern element read
    other             \* a second call of QueryPlan::new, suspended

vars == <<query, pc, ci, si, env, steps, prev_node_name, edge_name,
          returns, plan, log, other>>

(***************************************************************************)
(* Bounds of the model.                                                    *)
(***************************************************************************)
\* number of MATCH clauses of a query
MaxClauses == 2
\* number of (edge, node) segments of one MATCH clause
MaxSegments == 2
\* number of WHERE clauses of a query
MaxWhere == 1
\* number of RETURN names of a query
MaxReturns == 3
\* size of the syntax tree: pattern elements + labels + WHERE + RETURN entries
MaxSize == 6

\* Option::None of an annotation's name or label
None == "None"

\* The variable names queries are written with, in order of first use.
NamePool == <<"a", "e", "b", "e2">>
Names == {NamePool[i] : i \in 1..Len(NamePool)}
Labels == {"L"}

\* ast::Direction
Direction == {"Left", "Right", "Either"}

(***************************************************************************)
(* plan::NamedValue, plan::MatchStep, plan::Filter                         *)
(***************************************************************************)
NamedNode(id) == [kind |-> "Node", id |-> id]
NamedEdge(id) == [kind |-> "Edge", id |-> id]

LoadAnyNode(name) == [op |-> "LoadAnyNode", name |-> name]
LoadOriginEdge(name, node) == [op |-> "LoadOriginEdge", name |-> name, node |-> node]
LoadTargetEdge(name, node) == [op |-> "LoadTargetEdge", name |-> name, node |-> node]
LoadEitherEdge(name, node) == [op |-> "LoadEitherEdge", name |-> name, node |-> node]
LoadOriginNode(name, edge) == [op |-> "LoadOriginNode", name |-> name, edge |-> edge]
LoadTargetNode(name, edge) == [op |-> "LoadTargetNode", name |-> name, edge |-> edge]
LoadOtherNode(name, node, edge) ==
    [op |-> "LoadOtherNode", name |-> name, node |-> node, edge |-> edge]
FilterStep(f) == [op |-> "Filter", filter |-> f]

NodeHasLabel(node, label) == [t |-> "NodeHasLabel", node |-> node, label |-> label]
EdgeHasLabel(edge, label) == [t |-> "EdgeHasLabel", edge |-> edge, label |-> label]
IsOrigin(node, edge) == [t |-> "IsOrigin", node |-> node, edge |-> edge]
IsTarget(node, edge) == [t |-> "IsTarget", node |-> node, edge |-> edge]
\* Filter::and, Filter::or: structural constructors, nothing is simplified
FilterAnd(a, b) == [t |-> "And", l |-> a, r |-> b]
FilterOr(a, b) == [t |-> "Or", l |-> a, r |-> b]

(***************************************************************************)
(* BuildEnv.  An environment is the record [names, next_name]; a &mut     *)
(* operation yields its result together with the environment it leaves.    *)
(***************************************************************************)
\* BuildEnv::new
BuildEnvNew == [names |-> <<>>, next_name |-> 0]

\* Option::Some, Option::None of a looked-up value
Some(x) == [some |-> TRUE, v |-> x]
NoneOpt == [some |-> FALSE]

\* Result::Ok, Result::Err(Error::Todo)
Ok(x) == [ok |-> TRUE, val |-> x]
Err == [ok |-> FALSE]

\* HashMap::get
MapGet(m, name) == IF name \in DOMAIN m THEN Some(m[name]) ELSE NoneOpt

\* HashMap::insert
MapInsert(m, name, v) ==
    [k \in DOMAIN m \cup {name} |-> IF k = name THEN v ELSE m[k]]

\* next_name that hands out the counter and leaves it as it is
NextNameStuck(e) == [val |-> e.next_name, env |-> e]

\* next_name returning the counter after the increment
NextNamePreIncrement(e) ==
    [val |-> e.next_name + 1, env |-> [e EXCEPT !.next_name = @ + 1]]

\* next_name on a counter that the calls of QueryPlan::new share: it starts
\* where the other call's allocations stand
NextNameShared(e) ==
    [val |-> e.next_name + other.env.next_name,
     env |-> [e EXCEPT !.next_name = @ + other.env.next_name + 1]]

\* BuildEnv::next_name: returns the counter and advances it
NextName(e) ==
    [val |-> e.next_name, env |-> [e EXCEPT !.next_name = @ + 1]]

\* get_node that never finds a name
GetNodeMiss(e, name) == Ok(NoneOpt)

\* BuildEnv::get_node
GetNode(e, name) ==
    LET got == MapGet(e.names, name) IN
    IF ~got.some THEN Ok(NoneOpt)
    ELSE IF got.v.kind = "Node" THEN Ok(Some(got.v.id))
    ELSE Err

\* get_edge that never finds a name
GetEdgeMiss(e, name) == Ok(NoneOpt)

\* get_edge that hands out whatever the name is bound to
GetEdgeAnyKind(e, name) ==
    LET got == MapGet(e.names, name) IN
    IF ~got.some THEN Ok(NoneOpt) ELSE Ok(Some(got.v.id))

\* BuildEnv::get_edge
GetEdge(e, name) ==
    LET got == MapGet(e.names, name) IN
    IF ~got.some THEN Ok(NoneOpt)
    ELSE IF got.v.kind = "Edge" THEN Ok(Some(got.v.id))
    ELSE Err

\* create_node that allocates and binds whatever the name was bound to
CreateNodeRebind(e, name) ==
    LET n == NextName(e) IN
    [res |-> Ok(n.val),
     env |-> [n.env EXCEPT !.names = MapInsert(@, name, NamedNode(n.val))]]

\* BuildEnv::create_node: the Result and the environment the call leaves
CreateNode(e, name) ==
    LET got == MapGet(e.names, name) IN
    IF ~got.some
    THEN LET n == NextName(e) IN
         [res |-> Ok(n.val),
          env |-> [n.env EXCEPT !.names = MapInsert(@, name, NamedNode(n.val))]]
    ELSE IF got.v.kind = "Node" THEN [res |-> Ok(got.v.id), env |-> e]
    ELSE [res |-> Err, env |-> e]

\* BuildEnv::create_edge: the Result and the environment the call leaves
CreateEdge(e, name) ==
    LET got == MapGet(e.names, name) IN
    IF ~got.some
    THEN LET n == NextName(e) IN
         [res |-> Ok(n.val),
          env |-> [n.env EXCEPT !.names = MapInsert(@, name, NamedEdge(n.val))]]
    ELSE IF got.v.kind = "Edge" THEN [res |-> Ok(got.v.id), env |-> e]
    ELSE [res |-> Err, env |-> e]

(***************************************************************************)
(* The body of QueryPlan::new, part by part.  A part yields                *)
(* [ok, env, steps, name]: ok is FALSE when a `?` returned the error.      *)
(***************************************************************************)
Failed(e, st) == [ok |-> FALSE, env |-> e, steps |-> st, name |-> 0]
Done(e, st, name) == [ok |-> TRUE, env |-> e, steps |-> st, name |-> name]

\* the join filter of a bound edge with Left and Right taken for one another
EdgeJoinFilterSwapped(direction, prev, name) ==
    CASE direction = "Left" -> IsOrigin(prev, name)
      [] direction = "Right" -> IsTarget(prev, name)
      [] direction = "Either" -> FilterOr(IsOrigin(prev, name), IsTarget(prev, name))

\* the match on edge.direction that pushes the join filter of a bound edge
EdgeJoinFilter(direction, prev, name) ==
    CASE direction = "Left" -> IsTarget(prev, name)
      [] direction = "Right" -> IsOrigin(prev, name)
      [] direction = "Either" -> FilterOr(IsOrigin(prev, name), IsTarget(prev, name))

\* the Load of a new edge with Left and Right taken for one another
EdgeLoadSwapped(direction, name, prev) ==
    CASE direction = "Left" -> LoadOriginEdge(name, prev)
      [] direction = "Right" -> LoadTargetEdge(name, prev)
      [] direction = "Either" -> LoadEitherEdge(name, prev)

\* the match on edge.direction that pushes the Load of a new edge
EdgeLoad(direction, name, prev) ==
    CASE direction = "Left" -> LoadTargetEdge(name, prev)
      [] direction = "Right" -> LoadOriginEdge(name, prev)
      [] direction = "Either" -> LoadEitherEdge(name, prev)

\* the join filter of a bound end node that repeats the edge's side
NodeJoinFilterSameSide(direction, name, prev, edge) ==
    CASE direction = "Left" -> IsTarget(name, edge)
      [] direction = "Right" -> IsOrigin(name, edge)
      [] direction = "Either" ->
            FilterOr(FilterAnd(IsOrigin(name, edge), IsTarget(prev, edge)),
                     FilterAnd(IsTarget(name, edge), IsOrigin(prev, edge)))

\* the join filter of a bound end node with a two-term Or for Either
NodeJoinFilterBareOr(direction, name, prev, edge) ==
    CASE direction = "Left" -> IsOrigin(name, edge)
      [] direction = "Right" -> IsTarget(name, edge)
      [] direction = "Either" -> FilterOr(IsOrigin(name, edge), IsTarget(name, edge))

\* the join filter of a bound end node put on the previous node for Left and Right
NodeJoinFilterOnPrev(direction, name, prev, edge) ==
    CASE direction = "Left" -> IsOrigin(prev, edge)
      [] direction = "Right" -> IsTarget(prev, edge)
      [] direction = "Either" ->
            FilterOr(FilterAnd(IsOrigin(name, edge), IsTarget(prev, edge)),
                     FilterAnd(IsTarget(name, edge), IsOrigin(prev, edge)))

\* the join filter of a bound end node with one orientation only for Either
NodeJoinFilterOneOrientation(direction, name, prev, edge) ==
    CASE direction = "Left" -> IsOrigin(name, edge)
      [] direction = "Right" -> IsTarget(name, edge)
      [] direction = "Either" -> FilterAnd(IsOrigin(name, edge), IsTarget(prev, edge))

\* the match on edge.direction that pushes the join filter of a bound end node
NodeJoinFilter(direction, name, prev, edge) ==
    CASE direction = "Left" -> IsOrigin(name, edge)
      [] direction = "Right" -> IsTarget(name, edge)
      [] direction = "Either" ->
            FilterOr(FilterAnd(IsOrigin(name, edge), IsTarget(prev, edge)),
                     FilterAnd(IsTarget(name, edge), IsOrigin(prev, edge)))

\* the match on edge.direction that pushes the Load of a new end node
NodeLoad(direction, name, prev, edge) ==
    CASE direction = "Left" -> LoadOriginNode(name, edge)
      [] direction = "Right" -> LoadTargetNode(name, edge)
      [] direction = "Either" -> LoadOtherNode(name, prev, edge)

\* the start node without the push of LoadAnyNode for a new name
ResolveStartNoPush(e, st, annotation) ==
    IF annotation.name # None
    THEN LET got == GetNode(e, annotation.name) IN
         IF ~got.ok THEN Failed(e, st)
         ELSE IF got.val.some THEN Done(e, st, got.val.v)
         ELSE LET made == CreateNode(e, annotation.name) IN
              IF ~made.res.ok THEN Failed(e, st)
              ELSE Done(made.env, st, made.res.val)
    ELSE LET n == NextName(e) IN
         Done(n.env, Append(st, LoadAnyNode(n.val)), n.val)

\* let mut prev_node_name = ... of the clause's start node
ResolveStart(e, st, annotation) ==
    IF annotation.name # None
    THEN LET got == GetNode(e, annotation.name) IN
         IF ~got.ok THEN Failed(e, st)
         ELSE IF got.val.some THEN Done(e, st, got.val.v)
         ELSE LET made == CreateNode(e, annotation.name) IN
              IF ~made.res.ok THEN Failed(e, st)
              ELSE Done(made.env, Append(st, LoadAnyNode(made.res.val)), made.res.val)
    ELSE LET n == NextName(e) IN
         Done(n.env, Append(st, LoadAnyNode(n.val)), n.val)

\* let edge_name = ... of a segment's edge
ResolveEdge(e, st, edge, prev) ==
    IF edge.annotation.name # None
    THEN LET got == GetEdge(e, edge.annotation.name) IN
         IF ~got.ok THEN Failed(e, st)
         ELSE IF got.val.some
         THEN Done(e, Append(st, FilterStep(EdgeJoinFilter(edge.direction, prev, got.val.v))),
                   got.val.v)
         ELSE LET made == CreateEdge(e, edge.annotation.name) IN
              IF ~made.res.ok THEN Failed(e, st)
              ELSE Done(made.env,
                        Append(st, EdgeLoad(edge.direction, made.res.val, prev)),
                        made.res.val)
    ELSE LET n == NextName(e) IN
         Done(n.env, Append(st, EdgeLoad(edge.direction, n.val, prev)), n.val)

\* prev_node_name = ... of a segment's end node
ResolveNode(e, st, edge, node, prev, ename) ==
    IF node.annotation.name # None
    THEN LET got == GetNode(e, node.annotation.name) IN
         IF ~got.ok THEN Failed(e, st)
         ELSE IF got.val.some
         THEN Done(e, Append(st, FilterStep(NodeJoinFilter(edge.direction, got.val.v,
                                                           prev, ename))),
                   got.val.v)
         ELSE LET made == CreateNode(e, node.annotation.name) IN
              IF ~made.res.ok THEN Failed(e, st)
              ELSE Done(made.env,
                        Append(st, NodeLoad(edge.direction, made.res.val, prev, ename)),
                        made.res.val)
    ELSE LET n == NextName(e) IN
         Done(n.env, Append(st, NodeLoad(edge.direction, n.val, prev, ename)), n.val)

\* the label filter of a node pushed twice
PushNodeLabelTwice(st, annotation, node) ==
    IF annotation.label # None
    THEN st \o <<FilterStep(NodeHasLabel(node, annotation.label)),
                 FilterStep(NodeHasLabel(node, annotation.label))>>
    ELSE st

\* if let Some(label) = <node>.annotation.label { steps.push(NodeHasLabel) }
PushNodeLabel(st, annotation, node) ==
    IF annotation.label # None
    THEN Append(st, FilterStep(NodeHasLabel(node, annotation.label)))
    ELSE st

\* the edge label pushed as a node label
PushEdgeLabelAsNode(st, annotation, edge) ==
    IF annotation.label # None
    THEN Append(st, FilterStep(NodeHasLabel(edge, annotation.label)))
    ELSE st

\* if let Some(label) = edge.annotation.label { steps.push(EdgeHasLabel) }
PushEdgeLabel(st, annotation, edge) ==
    IF annotation.label # None
    THEN Append(st, FilterStep(EdgeHasLabel(edge, annotation.label)))
    ELSE st

\* the check for RETURN names alone
PatternLessReturnOnly(q) == q.match_clauses = <<>> /\ q.return_clause # <<>>

\* the checks with WHERE clauses rejected in every query
PatternLessOrWhere(q) ==
    \/ q.where_clauses # <<>>
    \/ q.match_clauses = <<>> /\ q.return_clause # <<>>

\* the two checks for WHERE or RETURN clauses without any MATCH clause
PatternLess(q) ==
    \/ q.match_clauses = <<>> /\ q.where_clauses # <<>>
    \/ q.match_clauses = <<>> /\ q.return_clause # <<>>

\* a lookup that falls back to a default binding
ResolveReturnOrDefault(e, name) ==
    LET got == MapGet(e.names, name) IN
    IF got.some THEN Ok(got.v) ELSE Ok(NamedNode(0))

\* a lookup that keeps the identifier and forgets the kind
ResolveReturnAsNode(e, name) ==
    LET got == MapGet(e.names, name) IN
    IF got.some THEN Ok(NamedNode(got.v.id)) ELSE Err

\* *env.names.get(name).ok_or(Error::Todo)
ResolveReturn(e, name) ==
    LET got == MapGet(e.names, name) IN
    IF got.some THEN Ok(got.v) ELSE Err

(***************************************************************************)
(* The queries compiled.  Init fixes the shape of the query: how many      *)
(* MATCH clauses with how many segments each, how many WHERE clauses, how  *)
(* many RETURN names.  What an annotation, a direction or a RETURN entry   *)
(* holds is chosen when the compiler first reads it, and recorded in       *)
(* query; until then it is Unread.  A name not bound so far is written as  *)
(* the next unused name of NamePool (the compiler only compares names for  *)
(* equality).                                                              *)
(***************************************************************************)
Unread == "Unread"
UnreadAnnotation == [name |-> Unread, label |-> Unread]

RECURSIVE SumSeq(_)
SumSeq(s) == IF s = <<>> THEN 0 ELSE s[1] + SumSeq(Tail(s))

\* segments per clause, for every clause
Shapes == UNION {[1..c -> 0..MaxSegments] : c \in 0..MaxClauses}

\* pattern elements of a query of the given shape
NumElements(shape) == Len(shape) + 2 * SumSeq(shape)

Skeleton(shape, wheres, rets) ==
    [match_clauses |-> [k \in 1..Len(shape) |->
        [start |-> [annotation |-> UnreadAnnotation],
         edges |-> [j \in 1..shape[k] |->
             <<[annotation |-> UnreadAnnotation, direction |-> Unread],
               [annotation |-> UnreadAnnotation]>>]]],
     where_clauses |-> [i \in 1..wheres |-> "where"],
     return_clause |-> [i \in 1..rets |-> Unread]]

\* the names an annotation may hold: none, a name in scope, or a new name
NameChoices ==
    {None} \cup DOMAIN env.names \cup
    (IF Cardinality(DOMAIN env.names) < Len(NamePool)
     THEN {NamePool[Cardinality(DOMAIN env.names) + 1]} ELSE {})

\* the size of the query: what Init fixed and the labels read so far
QuerySize ==
    SumSeq([k \in DOMAIN query.match_clauses |->
                1 + 2 * Len(query.match_clauses[k].edges)])
    + Len(query.where_clauses) + Len(query.return_clause)
    + Cardinality({i \in DOMAIN log : log[i].label # None})

LabelChoices == {None} \cup (IF QuerySize < MaxSize THEN Labels ELSE {})

Annotations == [name : NameChoices, label : LabelChoices]

\* what a part reads from the query: what was read there before, or a choice
ReadAnnotation(recorded) ==
    IF recorded = UnreadAnnotation THEN Annotations ELSE {recorded}
ReadDirection(recorded) ==
    IF recorded = Unread THEN Direction ELSE {recorded}
ReadName(recorded) ==
    IF recorded = Unread THEN Names ELSE {recorded}

NoPlan == [status |-> "none"]
ErrPlan == [status |-> "err"]
OkPlan(st, rets) == [status |-> "ok", steps |-> st, returns |-> rets]

\* a call of QueryPlan::new that has not run yet, on the WHERE list wheres
Entered(wheres) ==
    [where_clauses |-> wheres, pc |-> "start", ci |-> 0, si |-> 0,
     env |-> BuildEnvNew, steps |-> <<>>, prev_node_name |-> 0,
     edge_name |-> 0, returns |-> <<>>, plan |-> NoPlan, log |-> <<>>]

Init ==
    /\ \E shape \in Shapes, wheres \in 0..MaxWhere, rets \in 0..MaxReturns :
        /\ NumElements(shape) + wheres + rets <= MaxSize
        /\ query = Skeleton(shape, wheres, rets)
    /\ pc = "start"
    /\ ci = 0
    /\ si = 0
    /\ env = BuildEnvNew
    /\ steps = <<>>
    /\ prev_node_name = 0
    /\ edge_name = 0
    /\ returns = <<>>
    /\ plan = NoPlan
    /\ log = <<>>
    /\ other = Entered(<<>>)

(***************************************************************************)
(* Actions                                                                 *)
(***************************************************************************)
\* return Err(..) out of QueryPlan::new: no plan, the locals are dropped
Fail ==
    /\ pc' = "error"
    /\ plan' = ErrPlan
    /\ UNCHANGED <<ci, si, env, steps, prev_node_name, edge_name, returns>>

\* where the loops go after the start node (seg = 0) or the seg-th segment
\* of clause c
Advance(c, seg) ==
    IF seg < Len(query.match_clauses[c].edges)
    THEN pc' = "edge" /\ ci' = c /\ si' = seg + 1
    ELSE IF c < Len(query.match_clauses)
    THEN pc' = "clause" /\ ci' = c + 1 /\ si' = 0
    ELSE pc' = "return" /\ ci' = c /\ si' = seg

\* the two pattern-less checks, then env and steps are created
Validate ==
    /\ pc = "start"
    /\ UNCHANGED <<query, log, other>>
    /\ IF PatternLess(query) THEN Fail
       ELSE /\ env' = BuildEnvNew
            /\ steps' = <<>>
            /\ IF query.match_clauses = <<>>
               THEN pc' = "return" /\ ci' = 0
               ELSE pc' = "clause" /\ ci' = 1
            /\ UNCHANGED <<si, prev_node_name, edge_name, returns, plan>>

\* the start node of clause ci and its label
StartNode ==
    /\ pc = "clause"
    /\ UNCHANGED other
    /\ \E annotation \in ReadAnnotation(query.match_clauses[ci].start.annotation) :
        LET got == ResolveStart(env, steps, annotation)
            pushed == PushNodeLabel(got.steps, annotation, got.name)
        IN
        /\ query' = [query EXCEPT !.match_clauses[ci].start.annotation = annotation]
        /\ log' = Append(log,
             [elem |-> "start", clause |-> ci, seg |-> 0,
              name |-> annotation.name, label |-> annotation.label,
              was |-> MapGet(env.names, annotation.name),
              ok |-> got.ok, id |-> got.name,
              lo |-> Len(steps), hi |-> IF got.ok THEN Len(pushed) ELSE Len(steps)])
        /\ IF ~got.ok THEN Fail
           ELSE /\ env' = got.env
                /\ prev_node_name' = got.name
                /\ steps' = pushed
                /\ Advance(ci, 0)
                /\ UNCHANGED <<edge_name, returns, plan>>

\* the edge of segment si of clause ci and its label
EdgeStep ==
    /\ pc = "edge"
    /\ UNCHANGED other
    /\ \E annotation \in ReadAnnotation(query.match_clauses[ci].edges[si][1].annotation),
          direction \in ReadDirection(query.match_clauses[ci].edges[si][1].direction) :
        LET edge == [annotation |-> annotation, direction |-> direction]
            got == ResolveEdge(env, steps, edge, prev_node_name)
            pushed == PushEdgeLabel(got.steps, annotation, got.name)
        IN
        /\ query' = [query EXCEPT !.match_clauses[ci].edges[si][1] = edge]
        /\ log' = Append(log,
             [elem |-> "edge", clause |-> ci, seg |-> si,
              name |-> annotation.name, label |-> annotation.label,
              direction |-> direction,
              was |-> MapGet(env.names, annotation.name),
              prev |-> prev_node_name,
              ok |-> got.ok, id |-> got.name,
              lo |-> Len(steps), hi |-> IF got.ok THEN Len(pushed) ELSE Len(steps)])
        /\ IF ~got.ok THEN Fail
           ELSE /\ env' = got.env
                /\ edge_name' = got.name
                /\ steps' = pushed
                /\ pc' = "node"
                /\ UNCHANGED <<ci, si, prev_node_name, returns, plan>>

\* the end node of segment si of clause ci and its label
NodeStep ==
    /\ pc = "node"
    /\ UNCHANGED other
    /\ \E annotation \in ReadAnnotation(query.match_clauses[ci].edges[si][2].annotation) :
        LET edge == query.match_clauses[ci].edges[si][1]
            node == [annotation |-> annotation]
            got == ResolveNode(env, steps, edge, node, prev_node_name, edge_name)
            pushed == PushNodeLabel(got.steps, annotation, got.name)
        IN
        /\ query' = [query EXCEPT !.match_clauses[ci].edges[si][2] = node]
        /\ log' = Append(log,
             [elem |-> "node", clause |-> ci, seg |-> si,
              name |-> annotation.name, label |-> annotation.label,
              direction |-> edge.direction,
              was |-> MapGet(env.names, annotation.name),
              prev |-> prev_node_name, edge |-> edge_name,
              ok |-> got.ok, id |-> got.name,
              lo |-> Len(steps), hi |-> IF got.ok THEN Len(pushed) ELSE Len(steps)])
        /\ IF ~got.ok THEN Fail
           ELSE /\ env' = got.env
                /\ prev_node_name' = got.name
                /\ steps' = pushed
                /\ Advance(ci, si)
                /\ UNCHANGED <<edge_name, returns, plan>>

\* one iteration of the loop over query.return_clause
ReturnName ==
    /\ pc = "return"
    /\ Len(returns) < Len(query.return_clause)
    /\ UNCHANGED other
    /\ \E name \in ReadName(query.return_clause[Len(returns) + 1]) :
        LET got == ResolveReturn(env, name) IN
        /\ query' = [query EXCEPT !.return_clause[Len(returns) + 1] = name]
        /\ log' = log
        /\ IF ~got.ok THEN Fail
           ELSE /\ returns' = Append(returns, got.val)
                /\ UNCHANGED <<pc, ci, si, env, steps, prev_node_name,
                               edge_name, plan>>

\* Ok(QueryPlan { steps, returns })
Finish ==
    /\ pc = "return"
    /\ Len(returns) = Len(query.return_clause)
    /\ pc' = "done"
    /\ plan' = OkPlan(steps, returns)
    /\ UNCHANGED <<query, ci, si, env, steps, prev_node_name, edge_name,
                   returns, log, other>>

Next == Validate \/ StartNode \/ EdgeStep \/ NodeStep \/ ReturnName \/ Finish

Spec == Init /\ [][Next]_vars

(***************************************************************************)
(* Two calls of QueryPlan::new                                             *)
(***************************************************************************)
\* size of the query the two calls compile
MaxPairSize == 3

\* the names a WHERE clause may mention
WhereNames == {"a"}

\* the WHERE lists of a query, a clause being the name it mentions
WhereLists == UNION {[1..n -> WhereNames] : n \in 0..MaxWhere}

InitPair ==
    /\ \E shape \in Shapes, rets \in 0..MaxReturns, w1 \in WhereLists, w2 \in WhereLists :
        /\ NumElements(shape) + rets <= MaxPairSize
        /\ query = [Skeleton(shape, 0, rets) EXCEPT !.where_clauses = w1]
        /\ other = Entered(w2)
    /\ pc = "start"
    /\ ci = 0
    /\ si = 0
    /\ env = BuildEnvNew
    /\ steps = <<>>
    /\ prev_node_name = 0
    /\ edge_name = 0
    /\ returns = <<>>
    /\ plan = NoPlan
    /\ log = <<>>

\* the running call is suspended and the suspended call runs: each call
\* keeps its locals and its WHERE list
Switch ==
    /\ other' = [where_clauses |-> query.where_clauses, pc |-> pc, ci |-> ci,
                 si |-> si, env |-> env, steps |-> steps,
                 prev_node_name |-> prev_node_name, edge_name |-> edge_name,
                 returns |-> returns, plan |-> plan, log |-> log]
    /\ query' = [query EXCEPT !.where_clauses = other.where_clauses]
    /\ pc' = other.pc
    /\ ci' = other.ci
    /\ si' = other.si
    /\ env' = other.env
    /\ steps' = other.steps
    /\ prev_node_name' = other.prev_node_name
    /\ edge_name' = other.edge_name
    /\ returns' = other.returns
    /\ plan' = other.plan
    /\ log' = other.log

NextPair == Next \/ Switch

SpecPair == InitPair /\ [][NextPair]_vars

(***************************************************************************)
(* Vocabulary of the properties                                            *)
(***************************************************************************)
IsLoad(st) == st.op # "Filter"

Loads(sq) == {i \in DOMAIN sq : IsLoad(sq[i])}

\* the identifiers a filter expression mentions, nested And/Or included
RECURSIVE FilterIds(_)
FilterIds(f) ==
    CASE f.t \in {"And", "Or"} -> FilterIds(f.l) \cup FilterIds(f.r)
      [] f.t = "NodeHasLabel" -> {f.node}
      [] f.t = "EdgeHasLabel" -> {f.edge}
      [] f.t \in {"IsOrigin", "IsTarget"} -> {f.node, f.edge}

\* the identifiers a step refers to: the anchors of a Load, the identifiers
\* of a Filter
StepRefs(st) ==
    CASE st.op = "LoadAnyNode" -> {}
      [] st.op \in {"LoadOriginEdge", "LoadTargetEdge", "LoadEitherEdge"} -> {st.node}
      [] st.op \in {"LoadOriginNode", "LoadTargetNode"} -> {st.edge}
      [] st.op = "LoadOtherNode" -> {st.node, st.edge}
      [] st.op = "Filter" -> FilterIds(st.filter)

\* the log entries of the elements that compiled
Compiled == {i \in DOMAIN log : log[i].ok}

\* the element was named and its name was in scope when it was read
Reused(e) == e.was.some

\* the kind a pattern position binds
KindOf(e) == IF e.elem = "edge" THEN "Edge" ELSE "Node"

\* every identifier a step of sq refers to is introduced by an earlier Load
ForwardOnly(sq) ==
    \A i \in DOMAIN sq : \A id \in StepRefs(sq[i]) :
        \E j \in 1..(i - 1) : IsLoad(sq[j]) /\ sq[j].name = id

(***************************************************************************)
(* C1: at every point of a compilation, and in the plan it returns, every  *)
(* identifier a step refers to (the anchor node or edge of a Load, any     *)
(* node or edge of a Filter expression, nested And/Or included) is         *)
(* introduced by a Load step at a strictly earlier position.               *)
(***************************************************************************)
C1_ForwardReferences ==
    /\ ForwardOnly(steps)
    /\ plan.status = "ok" => ForwardOnly(plan.steps)

\* a plan is returned whose steps hold an Or(And, And) filter and a Load
\* anchored at a node and an edge
C1_Witness ==
    /\ plan.status = "ok"
    /\ \E i \in DOMAIN plan.steps :
          /\ plan.steps[i].op = "Filter"
          /\ plan.steps[i].filter.t = "Or"
          /\ plan.steps[i].filter.l.t = "And"
    /\ \E i \in DOMAIN plan.steps : plan.steps[i].op = "LoadOtherNode"

(***************************************************************************)
(* C2: no identifier is introduced by more than one Load step, and a name  *)
(* in scope has exactly one Load step, however often and in whichever      *)
(* clauses the name occurs.                                                *)
(***************************************************************************)
C2_OneLoadPerIdentifier ==
    /\ \A i, j \in Loads(steps) : steps[i].name = steps[j].name => i = j
    /\ \A name \in DOMAIN env.names :
          Cardinality({i \in Loads(steps) : steps[i].name = env.names[name].id}) = 1

\* a node name and an edge name each occur again in a second clause
C2_Witness ==
    /\ pc = "done"
    /\ \E i, j \in Compiled :
          /\ log[i].clause = 2 /\ log[j].clause = 2
          /\ log[i].elem = "edge" /\ Reused(log[i])
          /\ log[j].elem # "edge" /\ Reused(log[j])

\* the steps pushed while the element of log entry e was compiled
Emitted(e) == (e.lo + 1)..e.hi

(***************************************************************************)
(* C3, as claimed: every occurrence of a named start node, edge or end     *)
(* node whose name is already bound to the same kind emits a filter step   *)
(* for that element, and no Load step.                                     *)
(***************************************************************************)
C3_Claimed ==
    \A i \in Compiled : Reused(log[i]) =>
        /\ \E k \in Emitted(log[i]) :
              steps[k].op = "Filter" /\ log[i].id \in FilterIds(steps[k].filter)
        /\ \A k \in Emitted(log[i]) : ~IsLoad(steps[k])

(***************************************************************************)
(* C3, amended: an edge or an end node whose name is already bound to the  *)
(* same kind emits, first, a join filter (IsOrigin, IsTarget or an Or of   *)
(* them) on its identifier, and no Load step; a start node whose name is   *)
(* already bound emits no Load step and no join filter: it emits its label *)
(* filter when it has a label and nothing otherwise.                       *)
(***************************************************************************)
C3_ReuseEmitsJoinFilter ==
    \A i \in Compiled : Reused(log[i]) =>
        LET e == log[i] IN
        /\ e.id = e.was.v.id
        /\ \A k \in Emitted(e) : ~IsLoad(steps[k])
        /\ e.elem \in {"edge", "node"} =>
              /\ e.hi >= e.lo + 1
              /\ steps[e.lo + 1].op = "Filter"
              /\ steps[e.lo + 1].filter.t \in {"IsOrigin", "IsTarget", "Or"}
              /\ e.id \in FilterIds(steps[e.lo + 1].filter)
        /\ e.elem = "start" =>
              /\ e.hi - e.lo = (IF e.label # None THEN 1 ELSE 0)
              /\ \A k \in Emitted(e) : steps[k].filter.t = "NodeHasLabel"

\* a clause reuses its start node without a label, its edge and its end node
C3_Witness ==
    /\ pc = "done"
    /\ \E i, j, k \in Compiled :
          /\ log[i].elem = "start" /\ Reused(log[i]) /\ log[i].label = None
          /\ log[j].elem = "edge" /\ Reused(log[j])
          /\ log[k].elem = "node" /\ Reused(log[k])

(***************************************************************************)
(* C4: a name bound as a node that occurs in an edge position, or bound as *)
(* an edge that occurs in a node position (start or end node), in the same *)
(* or a later clause, makes the compilation fail at that element: an error *)
(* and no plan.  The name keeps the binding it had.                        *)
(***************************************************************************)
C4_KindConflictFails ==
    /\ \A i \in DOMAIN log :
          (Reused(log[i]) /\ log[i].was.v.kind # KindOf(log[i])) =>
              /\ ~log[i].ok
              /\ i = Len(log)
              /\ pc = "error"
              /\ plan = ErrPlan
    /\ \A i \in DOMAIN log :
          Reused(log[i]) => env.names[log[i].name] = log[i].was.v

\* a name bound as a node in the first clause stands in an edge position of
\* the second clause
C4_Witness ==
    /\ pc = "error"
    /\ log # <<>>
    /\ LET e == log[Len(log)] IN
          /\ e.elem = "edge" /\ e.clause = 2
          /\ Reused(e) /\ e.was.v.kind = "Node"
          /\ \E i \in Compiled : log[i].clause = 1 /\ log[i].name = e.name

(***************************************************************************)
(* C5: a query with no MATCH clause and at least one WHERE clause or at    *)
(* least one RETURN name fails: once the checks have run the call has      *)
(* returned the error, no plan, and has read nothing of WHERE or RETURN.   *)
(***************************************************************************)
C5_PatternLessFails ==
    (/\ query.match_clauses = <<>>
     /\ query.where_clauses # <<>> \/ query.return_clause # <<>>) =>
        /\ pc \in {"start", "error"}
        /\ pc = "error" => plan = ErrPlan
        /\ pc = "start" => plan = NoPlan
        /\ \A i \in DOMAIN query.return_clause : query.return_clause[i] = Unread

\* the error for a query that has WHERE clauses and nothing else
C5_Witness ==
    /\ pc = "error"
    /\ query.match_clauses = <<>>
    /\ query.where_clauses # <<>>
    /\ query.return_clause = <<>>

\* the names the MATCH clauses have bound
BoundByMatch == {log[i].name : i \in Compiled} \ {None}

(***************************************************************************)
(* C6: a RETURN entry naming a variable that no MATCH clause bound fails   *)
(* the compilation, error and no plan, also when every MATCH clause        *)
(* compiled; a plan is returned only if every RETURN name is bound.        *)
(***************************************************************************)
C6_UnboundReturnFails ==
    /\ \A i \in DOMAIN query.return_clause :
          (/\ query.return_clause[i] # Unread
           /\ query.return_clause[i] \notin BoundByMatch) =>
              pc = "error" /\ plan = ErrPlan
    /\ plan.status = "ok" =>
          \A i \in DOMAIN query.return_clause :
              /\ query.return_clause[i] \in BoundByMatch
              /\ query.return_clause[i] \in DOMAIN env.names

\* every MATCH clause compiled, a first RETURN name resolved, the second is
\* not bound
C6_Witness ==
    /\ pc = "error"
    /\ query.match_clauses # <<>>
    /\ \A i \in DOMAIN log : log[i].ok
    /\ Len(returns) = 1
    /\ query.return_clause[2] \in Names \ BoundByMatch

(***************************************************************************)
(* C7: a returned plan has one returns entry per RETURN name, in order,    *)
(* duplicates kept; the i-th entry is the binding of the i-th name in the  *)
(* scope: the identifier and the kind (Node or Edge) of the pattern        *)
(* position that bound the name.                                           *)
(***************************************************************************)
C7_ReturnsResolveInOrder ==
    /\ Len(returns) <= Len(query.return_clause)
    /\ plan.status = "ok" =>
          /\ Len(plan.returns) = Len(query.return_clause)
          /\ \A i \in DOMAIN query.return_clause :
                /\ plan.returns[i] = env.names[query.return_clause[i]]
                /\ \E j \in Compiled :
                      /\ log[j].name = query.return_clause[i]
                      /\ ~Reused(log[j])
                      /\ plan.returns[i].kind = KindOf(log[j])
                      /\ plan.returns[i].id = log[j].id

\* a plan returning a node, an edge and the node again
C7_Witness ==
    /\ plan.status = "ok"
    /\ Len(plan.returns) = 3
    /\ plan.returns[1].kind = "Node"
    /\ plan.returns[2].kind = "Edge"
    /\ query.return_clause[3] = query.return_clause[1]
    /\ plan.returns[3] = plan.returns[1]

\* a pattern element written with a name and no label, an edge with a direction
Plain(name) == [annotation |-> [name |-> name, label |-> None]]
PlainEdge(name, direction) ==
    [annotation |-> [name |-> name, label |-> None], direction |-> direction]

\* the Load a new element is to get: its anchors are the identifiers the
\* compiler held in prev_node_name and edge_name when it read the element
FreshLoad(e) ==
    CASE e.elem = "start" -> [op |-> "LoadAnyNode", name |-> e.id]
      [] e.elem = "edge" /\ e.direction = "Right" ->
            [op |-> "LoadOriginEdge", name |-> e.id, node |-> e.prev]
      [] e.elem = "edge" /\ e.direction = "Left" ->
            [op |-> "LoadTargetEdge", name |-> e.id, node |-> e.prev]
      [] e.elem = "edge" /\ e.direction = "Either" ->
            [op |-> "LoadEitherEdge", name |-> e.id, node |-> e.prev]
      [] e.elem = "node" /\ e.direction = "Right" ->
            [op |-> "LoadTargetNode", name |-> e.id, edge |-> e.edge]
      [] e.elem = "node" /\ e.direction = "Left" ->
            [op |-> "LoadOriginNode", name |-> e.id, edge |-> e.edge]
      [] e.elem = "node" /\ e.direction = "Either" ->
            [op |-> "LoadOtherNode", name |-> e.id, node |-> e.prev, edge |-> e.edge]

\* prev and edge of a log entry are the identifiers of the elements to its
\* left: the previous node of the clause, the edge of the segment
Threaded(i) ==
    /\ log[i].elem = "edge" =>
          /\ log[i - 1].elem \in {"start", "node"}
          /\ log[i - 1].clause = log[i].clause
          /\ log[i].prev = log[i - 1].id
    /\ log[i].elem = "node" =>
          /\ log[i - 1].elem = "edge"
          /\ log[i - 2].elem \in {"start", "node"}
          /\ log[i - 2].clause = log[i].clause
          /\ log[i].edge = log[i - 1].id
          /\ log[i].prev = log[i - 2].id

\* MATCH (a)-[e]->(b) RETURN a,e,b
C8_Query ==
    [match_clauses |-> <<[start |-> Plain("a"),
                          edges |-> << <<PlainEdge("e", "Right"), Plain("b")>> >>]>>,
     where_clauses |-> <<>>,
     return_clause |-> <<"a", "e", "b">>]

(***************************************************************************)
(* C8: a pattern element that is new (unnamed, or named and not bound)     *)
(* emits its Load first and after it only its label filter: LoadAnyNode    *)
(* for a start node; for an edge, anchored at the previous node,           *)
(* LoadOriginEdge (Right), LoadTargetEdge (Left), LoadEitherEdge (Either); *)
(* for an end node, anchored at that edge, LoadTargetNode (Right),         *)
(* LoadOriginNode (Left), LoadOtherNode(n, prev, e) (Either).  The steps   *)
(* of the elements follow one another left to right, so a clause of new    *)
(* elements compiles to these Loads in order.  MATCH (a)-[e]->(b)          *)
(* RETURN a,e,b gives [LoadAnyNode(a), LoadOriginEdge(e,a),                *)
(* LoadTargetNode(b,e)] and returns [a,e,b].                               *)
(***************************************************************************)
C8_FreshElementsLoad ==
    /\ \A i \in Compiled :
          /\ log[i].lo = (IF i = 1 THEN 0 ELSE log[i - 1].hi)
          /\ log[i].hi <= Len(steps)
          /\ Threaded(i)
          /\ ~Reused(log[i]) =>
                /\ log[i].hi - log[i].lo = (IF log[i].label # None THEN 2 ELSE 1)
                /\ steps[log[i].lo + 1] = FreshLoad(log[i])
                /\ \A k \in Emitted(log[i]) : k # log[i].lo + 1 => ~IsLoad(steps[k])
    /\ log # <<>> /\ pc # "error" => log[Len(log)].hi = Len(steps)
    /\ (plan.status = "ok" /\ query = C8_Query) =>
          /\ plan.steps = <<[op |-> "LoadAnyNode", name |-> 0],
                            [op |-> "LoadOriginEdge", name |-> 1, node |-> 0],
                            [op |-> "LoadTargetNode", name |-> 2, edge |-> 1]>>
          /\ plan.returns = <<[kind |-> "Node", id |-> 0],
                              [kind |-> "Edge", id |-> 1],
                              [kind |-> "Node", id |-> 2]>>

\* the plan of MATCH (a)-[e]->(b) RETURN a,e,b
C8_Witness == plan.status = "ok" /\ query = C8_Query

\* MATCH (a)-[e]->(b) MATCH (b)-[e2]->(a)
C9_Query ==
    [match_clauses |->
        <<[start |-> Plain("a"),
           edges |-> << <<PlainEdge("e", "Right"), Plain("b")>> >>],
          [start |-> Plain("b"),
           edges |-> << <<PlainEdge("e2", "Right"), Plain("a")>> >>]>>,
     where_clauses |-> <<>>,
     return_clause |-> <<>>]

\* the steps the elements of clause c emitted
ClauseSteps(c) ==
    UNION {Emitted(log[i]) : i \in {j \in Compiled : log[j].clause = c}}

\* the identifier a name is bound to
IdOf(name) == env.names[name].id

(***************************************************************************)
(* C9, as claimed: for MATCH (a)-[e]->(b) MATCH (b)-[e2]->(a), a and b     *)
(* have one Load each, in the first clause; the only Load of the second    *)
(* clause introduces e2; the second clause emits IsOrigin and IsTarget     *)
(* join filter steps tying e2 to b as its origin and to a as its target.   *)
(***************************************************************************)
C9_Claimed ==
    (plan.status = "ok" /\ query = C9_Query) =>
        /\ \A n \in {"a", "b"} :
              /\ Cardinality({k \in Loads(steps) : steps[k].name = IdOf(n)}) = 1
              /\ \A k \in Loads(steps) : steps[k].name = IdOf(n) => k \in ClauseSteps(1)
        /\ \A k \in ClauseSteps(2) : IsLoad(steps[k]) => steps[k].name = IdOf("e2")
        /\ \E k \in ClauseSteps(2) :
              steps[k] = [op |-> "Filter", filter |->
                  [t |-> "IsOrigin", node |-> IdOf("b"), edge |-> IdOf("e2")]]
        /\ \E k \in ClauseSteps(2) :
              steps[k] = [op |-> "Filter", filter |->
                  [t |-> "IsTarget", node |-> IdOf("a"), edge |-> IdOf("e2")]]

(***************************************************************************)
(* C9, amended: for MATCH (a)-[e]->(b) MATCH (b)-[e2]->(a), a and b have   *)
(* one Load each, in the first clause; the second clause emits exactly two *)
(* steps: LoadOriginEdge(e2, b), the only Load, whose anchor ties e2 to b  *)
(* as its origin, and the one join filter IsTarget(a, e2); it emits no     *)
(* IsOrigin filter and no node Load.                                       *)
(***************************************************************************)
C9_SecondClauseJoins ==
    (plan.status = "ok" /\ query = C9_Query) =>
        /\ \A n \in {"a", "b"} :
              /\ Cardinality({k \in Loads(steps) : steps[k].name = IdOf(n)}) = 1
              /\ \A k \in Loads(steps) : steps[k].name = IdOf(n) => k \in ClauseSteps(1)
        /\ ClauseSteps(2) = {4, 5}
        /\ plan.steps[4] =
              [op |-> "LoadOriginEdge", name |-> IdOf("e2"), node |-> IdOf("b")]
        /\ plan.steps[5] = [op |-> "Filter", filter |->
              [t |-> "IsTarget", node |-> IdOf("a"), edge |-> IdOf("e2")]]
        /\ Len(plan.steps) = 5

\* the plan of MATCH (a)-[e]->(b) MATCH (b)-[e2]->(a)
C9_Witness == plan.status = "ok" /\ query = C9_Query

\* the filter of an undirected segment between two bound nodes
BothOrientations(node, prev, edge) ==
    [t |-> "Or",
     l |-> [t |-> "And",
            l |-> [t |-> "IsOrigin", node |-> node, edge |-> edge],
            r |-> [t |-> "IsTarget", node |-> prev, edge |-> edge]],
     r |-> [t |-> "And",
            l |-> [t |-> "IsTarget", node |-> node, edge |-> edge],
            r |-> [t |-> "IsOrigin", node |-> prev, edge |-> edge]]]

(***************************************************************************)
(* C10: the end node of an Either segment, when named and already bound,   *)
(* emits first exactly Filter(Or(And(IsOrigin(node,edge),                  *)
(* IsTarget(prev,edge)), And(IsTarget(node,edge), IsOrigin(prev,edge))))   *)
(* with prev the previous node of the segment, and no Load; an Either      *)
(* segment whose edge and end node are new emits LoadEitherEdge(edge,      *)
(* prev) and then LoadOtherNode(node, prev, edge).                         *)
(***************************************************************************)
C10_EitherBoundEndNode ==
    \A i \in Compiled :
        (log[i].elem = "node" /\ log[i].direction = "Either") =>
            LET e == log[i]
                prev == log[i - 2].id
                edge == log[i - 1].id
            IN
            /\ Reused(e) =>
                  /\ e.hi >= e.lo + 1
                  /\ steps[e.lo + 1] =
                        [op |-> "Filter", filter |-> BothOrientations(e.id, prev, edge)]
                  /\ \A k \in Emitted(e) : ~IsLoad(steps[k])
            /\ (~Reused(e) /\ ~Reused(log[i - 1])) =>
                  /\ steps[log[i - 1].lo + 1] =
                        [op |-> "LoadEitherEdge", name |-> edge, node |-> prev]
                  /\ steps[e.lo + 1] =
                        [op |-> "LoadOtherNode", name |-> e.id, node |-> prev,
                         edge |-> edge]

\* MATCH (a)-[e]-(b) with a, e, b new, then an Either segment between the
\* bound a and b in a second clause
C10_Witness ==
    /\ pc = "done"
    /\ \E i, j \in Compiled :
          /\ log[i].elem = "node" /\ log[i].direction = "Either"
          /\ log[i].clause = 1
          /\ ~Reused(log[i]) /\ ~Reused(log[i - 1]) /\ ~Reused(log[i - 2])
          /\ log[j].elem = "node" /\ log[j].direction = "Either"
          /\ log[j].clause = 2
          /\ Reused(log[j]) /\ Reused(log[j - 2])
          /\ log[j].id # log[j - 2].id

\* the top-level label filters among the steps with the given indices
LabelFilters(idx) ==
    {k \in idx : /\ steps[k].op = "Filter"
                 /\ steps[k].filter.t \in {"NodeHasLabel", "EdgeHasLabel"}}

\* the label filter a labelled element is to get
LabelFilterOf(e) ==
    IF e.elem = "edge"
    THEN [op |-> "Filter", filter |->
             [t |-> "EdgeHasLabel", edge |-> e.id, label |-> e.label]]
    ELSE [op |-> "Filter", filter |->
             [t |-> "NodeHasLabel", node |-> e.id, label |-> e.label]]

(***************************************************************************)
(* C11: a pattern element with a label emits exactly one label filter      *)
(* step, NodeHasLabel for a node and EdgeHasLabel for an edge, on the      *)
(* element's identifier and with its label, as the last of its steps       *)
(* (after its Load or join filter), whether the identifier is new or       *)
(* reused; an element without a label emits none.  The label filter steps  *)
(* are as many as the labelled elements compiled.                          *)
(***************************************************************************)
C11_OneLabelFilterPerLabel ==
    /\ \A i \in Compiled :
          LET e == log[i] IN
          IF e.label # None
          THEN /\ e.hi > e.lo
               /\ steps[e.hi] = LabelFilterOf(e)
               /\ LabelFilters(Emitted(e)) = {e.hi}
          ELSE LabelFilters(Emitted(e)) = {}
    /\ Cardinality(LabelFilters(DOMAIN steps)) =
          Cardinality({i \in Compiled : log[i].label # None})
    /\ plan.status = "ok" => plan.steps = steps

\* a new edge with a label, and a reused node with a label
C11_Witness ==
    /\ pc = "done"
    /\ \E i, j \in Compiled :
          /\ log[i].elem = "edge" /\ ~Reused(log[i]) /\ log[i].label # None
          /\ log[j].elem # "edge" /\ Reused(log[j]) /\ log[j].label # None

\* the identifiers allocated for unnamed elements
AnonymousIds == {log[i].id : i \in {j \in Compiled : log[j].name = None}}

\* the last element read was unnamed and compiled
ReadsUnnamed ==
    /\ log' # log
    /\ log'[Len(log')].ok
    /\ log'[Len(log')].name = None

(***************************************************************************)
(* C12: an unnamed pattern element gets an identifier that no element      *)
(* before it got, and a Load step of its own introducing it; compiling it  *)
(* leaves the scope of names as it was; no returns entry and no binding of *)
(* the scope carries the identifier of an unnamed element.                 *)
(***************************************************************************)
C12_UnnamedElementsAreFresh ==
    /\ [](/\ \A i \in Compiled : log[i].name = None =>
                /\ \A j \in 1..(i - 1) : log[j].id # log[i].id
                /\ \A n \in DOMAIN env.names : env.names[n].id # log[i].id
                /\ IsLoad(steps[log[i].lo + 1])
                /\ steps[log[i].lo + 1].name = log[i].id
                /\ \A k \in Loads(steps) :
                      steps[k].name = log[i].id => k = log[i].lo + 1
          /\ \A i \in DOMAIN returns : returns[i].id \notin AnonymousIds
          /\ plan.status = "ok" =>
                \A i \in DOMAIN plan.returns : plan.returns[i].id \notin AnonymousIds)
    /\ [][ReadsUnnamed => env'.names = env.names]_vars

\* a plan with two unnamed elements and a returned name
C12_Witness ==
    /\ plan.status = "ok"
    /\ Cardinality(AnonymousIds) >= 2
    /\ plan.returns # <<>>

(***************************************************************************)
(* C14: an edge whose name is already bound as an edge emits no Load and   *)
(* exactly one join filter, on the previous node prev of the clause and    *)
(* the edge's identifier: IsOrigin(prev, edge) for Right, IsTarget(prev,   *)
(* edge) for Left, Or(IsOrigin(prev, edge), IsTarget(prev, edge)) for      *)
(* Either; only its label filter may follow.                               *)
(***************************************************************************)
C14_BoundEdgeJoinFilter ==
    \A i \in Compiled :
        (log[i].elem = "edge" /\ Reused(log[i])) =>
            LET e == log[i]
                prev == log[i - 1].id
                origin == [t |-> "IsOrigin", node |-> prev, edge |-> e.id]
                target == [t |-> "IsTarget", node |-> prev, edge |-> e.id]
            IN
            /\ e.id = e.was.v.id
            /\ log[i - 1].elem \in {"start", "node"}
            /\ log[i - 1].clause = e.clause
            /\ e.hi - e.lo = (IF e.label # None THEN 2 ELSE 1)
            /\ \A k \in Emitted(e) : ~IsLoad(steps[k])
            /\ LabelFilters(Emitted(e)) \subseteq {e.lo + 2}
            /\ steps[e.lo + 1].op = "Filter"
            /\ e.direction = "Right" => steps[e.lo + 1].filter = origin
            /\ e.direction = "Left" => steps[e.lo + 1].filter = target
            /\ e.direction = "Either" =>
                  steps[e.lo + 1].filter = [t |-> "Or", l |-> origin, r |-> target]

\* an edge name is used again in each of the three directions' filters:
\* here a bound edge read as Either after a node other than its first anchor
C14_Witness ==
    /\ pc = "done"
    /\ \E i \in Compiled :
          /\ log[i].elem = "edge" /\ Reused(log[i])
          /\ log[i].direction = "Either"
          /\ \E j \in 1..(i - 1) :
                /\ log[j].elem = "edge" /\ log[j].name = log[i].name
                /\ log[j].prev # log[i].prev

(***************************************************************************)
(* C15: an end node whose name is already bound as a node, on a Right or   *)
(* Left edge, emits no Load and exactly one join filter: IsTarget(node,    *)
(* edge) for Right, IsOrigin(node, edge) for Left, with edge the edge of   *)
(* its segment; only its label filter may follow.  The reused identifier   *)
(* is then the previous node: prev_node_name holds it and the edge of the  *)
(* next segment is anchored at it.                                         *)
(***************************************************************************)
C15_BoundEndNodeJoinFilter ==
    \A i \in Compiled :
        (log[i].elem = "node" /\ Reused(log[i])) =>
            LET e == log[i]
                edge == log[i - 1].id
            IN
            /\ e.id = e.was.v.id
            /\ log[i - 1].elem = "edge" /\ log[i - 1].seg = e.seg
            /\ log[i - 1].clause = e.clause
            /\ e.direction = log[i - 1].direction
            /\ e.direction \in {"Right", "Left"} =>
                  /\ e.hi - e.lo = (IF e.label # None THEN 2 ELSE 1)
                  /\ \A k \in Emitted(e) : ~IsLoad(steps[k])
                  /\ LabelFilters(Emitted(e)) \subseteq {e.lo + 2}
                  /\ steps[e.lo + 1].op = "Filter"
                  /\ e.direction = "Right" => steps[e.lo + 1].filter =
                        [t |-> "IsTarget", node |-> e.id, edge |-> edge]
                  /\ e.direction = "Left" => steps[e.lo + 1].filter =
                        [t |-> "IsOrigin", node |-> e.id, edge |-> edge]
            /\ (i = Len(log) /\ pc # "error") => prev_node_name = e.id
            /\ (i < Len(log) /\ log[i + 1].elem = "edge") =>
                  /\ log[i + 1].prev = e.id
                  /\ log[i + 1].ok /\ ~Reused(log[i + 1]) =>
                        steps[log[i + 1].lo + 1].node = e.id

\* a reused end node on a Left edge, followed by a new edge anchored at it
C15_Witness ==
    /\ pc = "done"
    /\ \E i \in Compiled :
          /\ log[i].elem = "node" /\ Reused(log[i])
          /\ log[i].direction = "Left"
          /\ i + 1 \in Compiled
          /\ log[i + 1].elem = "edge" /\ ~Reused(log[i + 1])
          /\ log[i].id # log[i - 2].id

\* the position of the Load at index k among the Loads of sq, counting from 1
LoadRank(sq, k) == Cardinality({j \in Loads(sq) : j <= k})

ReadsFailing == log' # log /\ ~log'[Len(log')].ok

(***************************************************************************)
(* C17: once a name is bound, its kind and identifier are the same in      *)
(* every later state (no entry is removed or overwritten); create_node or  *)
(* create_edge on a name bound to the same kind returns the existing       *)
(* identifier and leaves scope and counter as they are; get_node, get_edge *)
(* and every call that returns a kind-conflict error leave scope and       *)
(* counter as they are.                                                    *)
(***************************************************************************)
C17_StableBindings ==
    /\ [](\A name \in DOMAIN env.names :
             LET v == env.names[name] IN
             /\ v.kind = "Node" =>
                   /\ CreateNode(env, name) = [res |-> Ok(v.id), env |-> env]
                   /\ GetNode(env, name) = Ok(Some(v.id))
                   /\ CreateEdge(env, name) = [res |-> Err, env |-> env]
                   /\ GetEdge(env, name) = Err
             /\ v.kind = "Edge" =>
                   /\ CreateEdge(env, name) = [res |-> Ok(v.id), env |-> env]
                   /\ GetEdge(env, name) = Ok(Some(v.id))
                   /\ CreateNode(env, name) = [res |-> Err, env |-> env]
                   /\ GetNode(env, name) = Err)
    /\ [][/\ \A name \in DOMAIN env.names :
                /\ name \in DOMAIN env'.names
                /\ env'.names[name] = env.names[name]
          /\ env'.next_name >= env.next_name
          /\ ReadsFailing => env' = env]_vars

\* a compilation that bound a node name and an edge name and then failed on
\* a kind conflict
C17_Witness ==
    /\ pc = "error"
    /\ \E n, m \in DOMAIN env.names :
          env.names[n].kind = "Node" /\ env.names[m].kind = "Edge"
    /\ log # <<>>
    /\ ~log[Len(log)].ok
    /\ log[Len(log)].was.some

\* the pattern elements of the query: a start node per clause, an edge and
\* an end node per segment
PatternElements ==
    SumSeq([k \in DOMAIN query.match_clauses |->
                1 + 2 * Len(query.match_clauses[k].edges)])

\* where in the query a log entry was read
Position(e) == <<e.clause, e.seg, e.elem>>

\* the compilation is over: a plan or an error
Terminated == pc \in {"done", "error"}

\* QueryPlan::new is one sequential call: control never stops between two
\* statements of the body, so a step that can be taken is taken
SpecFair == Spec /\ WF_vars(Next)

(***************************************************************************)
(* C18: every compilation terminates, in a plan or an error, after a       *)
(* single pass: each pattern element is read at most once and contributes  *)
(* at most two steps, one Load or join filter and at most one label        *)
(* filter, so the steps are at most twice the pattern elements; the        *)
(* returns of a plan are exactly as many as the RETURN list.               *)
(***************************************************************************)
C18_TerminatesLinear ==
    /\ <>Terminated
    /\ [](/\ Len(log) <= PatternElements
          /\ \A i, j \in DOMAIN log : i # j => Position(log[i]) # Position(log[j])
          /\ \A i \in DOMAIN log :
                /\ log[i].hi - log[i].lo <= 2
                /\ Cardinality(Emitted(log[i]) \ LabelFilters(Emitted(log[i]))) <= 1
                /\ Cardinality(LabelFilters(Emitted(log[i]))) <= 1
          /\ Len(steps) <= 2 * Cardinality(Compiled)
          /\ Len(returns) <= Len(query.return_clause)
          /\ Terminated => (plan.status = "ok") # (plan.status = "err")
          /\ plan.status = "ok" =>
                /\ Len(plan.steps) <= 2 * PatternElements
                /\ Len(plan.returns) = Len(query.return_clause))

\* a plan for a start node, an edge and an end node, all labelled: exactly
\* twice as many steps as pattern elements
C18_Witness ==
    /\ plan.status = "ok"
    /\ PatternElements >= 3
    /\ Len(plan.steps) = 2 * PatternElements
    /\ Len(plan.returns) = Len(query.return_clause)

(***************************************************************************)
(* The meaning of the steps for the execution engine.  A graph is seen     *)
(* through what the orientation filters look at: a node is one of          *)
(* GraphNodes, an edge is its pair <<origin, target>>; a binding maps      *)
(* identifiers to such values.                                             *)
(***************************************************************************)
MaxGraphNodes == 2

GraphNodes == 1..MaxGraphNodes
GraphEdges == GraphNodes \X GraphNodes
Origin(ev) == ev[1]
Target(ev) == ev[2]

\* Filter(expr): the orientation filters and their And/Or trees over a
\* binding b; the operands have no effects, so short-circuit evaluation is
\* the boolean value
RECURSIVE Eval(_, _)
Eval(f, b) ==
    CASE f.t = "IsOrigin" -> Origin(b[f.edge]) = b[f.node]
      [] f.t = "IsTarget" -> Target(b[f.edge]) = b[f.node]
      [] f.t = "And" -> IF Eval(f.l, b) THEN Eval(f.r, b) ELSE FALSE
      [] f.t = "Or" -> IF Eval(f.l, b) THEN TRUE ELSE Eval(f.r, b)

\* a step that introduces or joins an edge lets the binding b through
EdgeStepAccepts(st, b) ==
    CASE st.op = "LoadOriginEdge" -> Origin(b[st.name]) = b[st.node]
      [] st.op = "LoadTargetEdge" -> Target(b[st.name]) = b[st.node]
      [] st.op = "LoadEitherEdge" ->
            Origin(b[st.name]) = b[st.node] \/ Target(b[st.name]) = b[st.node]
      [] st.op = "Filter" -> Eval(st.filter, b)

\* the bindings of (prev, edge, node) for the end node entry e: one value
\* per identifier, so prev and node agree where they are one identifier
SegmentBindings(e) ==
    {b \in {[x \in {e.prev, e.edge, e.id} |->
                IF x = e.edge THEN ev ELSE IF x = e.prev THEN pv ELSE nv] :
            pv \in GraphNodes, nv \in GraphNodes, ev \in GraphEdges} :
        b[e.edge] \in GraphEdges /\ (e.prev = e.id => b[e.prev] = b[e.id])}

\* the end node of an Either segment whose name was bound
EitherBound(i) ==
    /\ i \in Compiled
    /\ log[i].elem = "node"
    /\ Reused(log[i])
    /\ log[i].direction = "Either"

(***************************************************************************)
(* C16: over any graph, the filter emitted for an Either segment with a    *)
(* bound end node is true of a binding of (prev, edge, node) exactly when  *)
(* origin(edge) = node and target(edge) = prev, or target(edge) = node and *)
(* origin(edge) = prev; and some binding passes the segment's edge step    *)
(* and the two-term Or(IsOrigin(node, edge), IsTarget(node, edge)) but is  *)
(* rejected by the emitted filter.                                         *)
(***************************************************************************)
C16_EitherBoundFilterMeaning ==
    \A i \in DOMAIN log : EitherBound(i) =>
        LET e == log[i]
            f == steps[e.lo + 1].filter
            edgeStep == steps[log[i - 1].lo + 1]
            twoTerm == [t |-> "Or",
                        l |-> [t |-> "IsOrigin", node |-> e.id, edge |-> e.edge],
                        r |-> [t |-> "IsTarget", node |-> e.id, edge |-> e.edge]]
        IN
        /\ steps[e.lo + 1].op = "Filter"
        /\ \A b \in SegmentBindings(e) :
              Eval(f, b) <=>
                  \/ Origin(b[e.edge]) = b[e.id] /\ Target(b[e.edge]) = b[e.prev]
                  \/ Target(b[e.edge]) = b[e.id] /\ Origin(b[e.edge]) = b[e.prev]
        /\ \E b \in SegmentBindings(e) :
              /\ EdgeStepAccepts(edgeStep, b)
              /\ Eval(twoTerm, b)
              /\ ~Eval(f, b)

\* both kinds of edge step before a bound Either end node that is not the
\* previous node: a loaded edge and a joined edge
C16_Witness ==
    /\ pc = "done"
    /\ \E i, j \in DOMAIN log :
          /\ EitherBound(i) /\ log[i].prev # log[i].id
          /\ ~Reused(log[i - 1])
          /\ EitherBound(j) /\ Reused(log[j - 1])

\* the suspended call is over: a plan or an error
OtherTerminated == other.pc \in {"done", "error"}

\* s is the beginning of t
IsPrefix(s, t) == Len(s) <= Len(t) /\ SubSeq(t, 1, Len(s)) = s

\* one of the two sequences is the beginning of the other
Comparable(s, t) == IsPrefix(s, t) \/ IsPrefix(t, s)

\* the two calls compile the same query: MATCH and RETURN are common to
\* them, so the WHERE lists decide
SameQuery == query.where_clauses = other.where_clauses

(***************************************************************************)
(* C13: two compilations of the same query, interleaved in any way with    *)
(* each other, produce the same outcome: the same steps and the same       *)
(* returns, or both an error.  Each starts from an empty scope and a       *)
(* counter at 0 of its own, whatever the other has allocated, and at every *)
(* point the steps, the returns and the elements compiled by the one are   *)
(* the beginning of those of the other.                                    *)
(***************************************************************************)
C13_DeterministicIsolated ==
    /\ log = <<>> => env = BuildEnvNew /\ steps = <<>>
    /\ other.log = <<>> => other.env = BuildEnvNew /\ other.steps = <<>>
    /\ SameQuery =>
          /\ Comparable(steps, other.steps)
          /\ Comparable(returns, other.returns)
          /\ Comparable(log, other.log)
          /\ Len(log) = Len(other.log) /\ Len(returns) = Len(other.returns) =>
                env = other.env
          /\ (Terminated /\ OtherTerminated) =>
                /\ plan = other.plan
                /\ plan.status \in {"ok", "err"}

\* both compilations of one query returned the plan, of two Loads or more
\* and with returns
C13_Witness ==
    /\ SameQuery
    /\ pc = "done" /\ other.pc = "done"
    /\ plan.status = "ok" /\ other.plan.status = "ok"
    /\ Cardinality(Loads(plan.steps)) >= 2
    /\ plan.returns # <<>>

(***************************************************************************)
(* C20: when the query has a MATCH clause, two queries that differ only in *)
(* their WHERE lists compile to the same outcome: the same steps and       *)
(* returns, or both an error.  A name is in scope only if a MATCH clause   *)
(* bound it, whatever the WHERE clauses mention, and every step of the     *)
(* plan is a step of a pattern element: none is emitted for a WHERE        *)
(* clause.                                                                 *)
(***************************************************************************)
C20_WhereHasNoEffect ==
    /\ query.match_clauses # <<>> =>
          /\ (Terminated /\ OtherTerminated) => plan = other.plan
          /\ Comparable(steps, other.steps)
          /\ Comparable(returns, other.returns)
    /\ DOMAIN env.names = BoundByMatch
    /\ \A k \in DOMAIN query.where_clauses :
          query.where_clauses[k] \in DOMAIN env.names =>
              \E i \in Compiled : log[i].name = query.where_clauses[k]
    /\ DOMAIN steps = UNION {Emitted(log[i]) : i \in Compiled}
    /\ plan.status = "ok" => plan.steps = steps

\* the query with a WHERE clause on a name no MATCH clause binds and the
\* query without it both compiled to the plan
C20_Witness ==
    /\ pc = "done" /\ other.pc = "done"
    /\ plan.status = "ok" /\ other.plan.status = "ok"
    /\ plan.steps # <<>>
    /\ query.where_clauses # <<>>
    /\ other.where_clauses = <<>>
    /\ \E k \in DOMAIN query.where_clauses :
          query.where_clauses[k] \notin DOMAIN env.names

====
